---- MODULE Spec2Model ----
(***************************************************************************)
(* Beacon entry validation (ValidateBlockValues) and production            *)
(* (BeaconEntriesForBlock) of package beacon, src/actor/builtin/miner/     *)
(* miner.go lines 367-531, and the miner actor (package miner) of lines     *)
(* 1-365 of the same file.                                                 *)
(***************************************************************************)
EXTENDS Integers, Sequences, FiniteSets, TLC

\* ------------------------------------------------------------------ bounds
MaxEpoch == 3          \* chain epochs are 0..MaxEpoch
MaxEntries == 2        \* longest entry list of a candidate block header
MaxRoundVal == 2       \* rounds of a candidate block's entries are 0..MaxRoundVal
RoundWidth == 4        \* width in bits of the (scaled-down) uint64 round counter

MaxPledge == 2         \* PledgeBytes is 0..MaxPledge
MaxAsk == 2            \* the size of an ask is 0..MaxAsk
MaxSectors == 2        \* most sectors a miner gets
MaxDeals == 2          \* most deals a sector gets
MaxPower == 2          \* Power is 0..MaxPower

RoundMod == 2 ^ RoundWidth
DataVals == {0, 1}     \* entry payloads (signatures), abstracted to two values
NetworkVersions == {1, 2}
Beacons == {1, 2}

VARIABLES
    mode,         \* "produce": BeaconEntriesForBlock is called; "validate": ValidateBlockValues on a given header
    bSchedule,    \* Schedule: sequence of BeaconPoint, Start descending
    nv,           \* network.Version
    epoch,        \* target epoch / h.Height
    parentEpoch,
    prev,         \* caller's prev / *prevEntry value
    h,            \* h.BeaconEntries
    cancelled,    \* ctx.Done() is closed
    ppc,          \* position of BeaconEntriesForBlock
    pprev,        \* BeaconEntriesForBlock's by-value copy of prev
    currEpoch,    \* loop variable of the fetch loop
    out,          \* accumulator / result slice
    pres,         \* result of BeaconEntriesForBlock
    reqs,         \* Entry requests issued so far, in order
    rch,          \* current response channel (capacity 1)
    resps,        \* responses the beacon has sent so far, in order
    awaiting,     \* a request on rch has not been answered yet
    vpc,          \* position of ValidateBlockValues
    vi,           \* index of the verify loop (1-based)
    vprev,        \* the local prevEntry pointer's target
    vlog,         \* VerifyEntry calls made so far, in order
    vres,         \* result of ValidateBlockValues
    state,        \* the miner actor's persisted State
    lastCall,     \* the last message handled by the actor and its outcome
    committed     \* per sector ID: the successful CommitSector calls so far

vars == <<mode, bSchedule, nv, epoch, parentEpoch, prev, h, cancelled,
          ppc, pprev, currEpoch, out, pres, reqs, rch, resps, awaiting,
          vpc, vi, vprev, vlog, vres, state, lastCall, committed>>

inputVars == <<mode, bSchedule, nv, epoch, parentEpoch, prev>>
pVars == <<ppc, pprev, currEpoch, out, pres, reqs, rch, resps, awaiting>>
vVars == <<vpc, vi, vprev, vlog, vres>>

minerVars == <<state, lastCall, committed>>

beaconVars == <<mode, bSchedule, nv, epoch, parentEpoch, prev, h, cancelled,
                ppc, pprev, currEpoch, out, pres, reqs, rch, resps, awaiting,
                vpc, vi, vprev, vlog, vres>>

\* ------------------------------------------------------------- data types
BeaconEntry(r, d) == [Round |-> r, Data |-> d]

Response(e, err) == [Entry |-> e, Err |-> err]

BeaconPoint(s, b) == [Start |-> s, Beacon |-> b]

NoEntry == BeaconEntry(0, 0)

\* ------------------------------------------------- RandomBeacon capability
\* Beacon 1 is unchained, beacon 2 is chained.
IsChained(b) == b = 2

\* Epochs per round; the cadence changes with the network version.
Period(b, v) == IF b = v THEN 1 ELSE 2

MaxBeaconRoundForEpoch(b, v, e) == e \div Period(b, v)

\* The signature the beacon's source really produced for a round.
Sig(b, r) == (r + b) % 2

\* An unchained beacon checks the entry alone; a chained beacon also checks
\* that prevEntrySig is the signature of the preceding round.
VerifyEntry(b, entry, prevEntrySig) ==
    /\ entry.Data = Sig(b, entry.Round)
    /\ IsChained(b) => prevEntrySig = Sig(b, (entry.Round + RoundMod - 1) % RoundMod)

\* ---------------------------------------------------------------- Schedule
RECURSIVE ScanFrom(_, _, _)
ScanFrom(bs, i, e) ==
    IF bs[i].Start <= e \/ i = Len(bs) THEN bs[i].Beacon ELSE ScanFrom(bs, i + 1, e)

BeaconForEpoch(bs, e) == ScanFrom(bs, 1, e)

\* Epochs at which a second beacon may take over.
ForkStarts == {1, 2}

Schedules ==
    { <<BeaconPoint(0, b)>> : b \in Beacons } \cup
    { <<BeaconPoint(s, b), BeaconPoint(0, 3 - b)>> : s \in ForkStarts, b \in Beacons }

\* ----------------------------------------------------------------- helpers
RECURSIVE SeqsUpTo(_, _)
SeqsUpTo(S, n) ==
    IF n = 0 THEN { <<>> }
    ELSE LET shorter == SeqsUpTo(S, n - 1)
         IN shorter \cup { Append(s, x) : s \in { t \in shorter : Len(t) = n - 1 }, x \in S }

CandidateEntries == { BeaconEntry(r, d) : r \in 0..MaxRoundVal, d \in DataVals }

\* mutant: the first fork request asks for round instead of round-1
Sub1Same(r) == r

\* lines 478, 503: round-1 in uint64 arithmetic
Sub1(r) == (r + RoundMod - 1) % RoundMod

\* mutant: the accumulator is returned as built
reverseNoop(arr) == arr

\* lines 527-531
reverse(arr) == [i \in 1..Len(arr) |-> arr[Len(arr) + 1 - i]]

\* mutant: the beacon comparison is inverted
IsForkInverted(bs, e, pe) ==
    /\ BeaconForEpoch(bs, pe) = BeaconForEpoch(bs, e)
    /\ IsChained(BeaconForEpoch(bs, e))

\* lines 408-411 and 472-474
IsFork(bs, e, pe) ==
    /\ BeaconForEpoch(bs, pe) # BeaconForEpoch(bs, e)
    /\ IsChained(BeaconForEpoch(bs, e))

\* mutant: the no-op test is missing
NoNewRoundNever(mr, p) == FALSE

\* mutant: the no-op test also covers a prev round beyond maxRound
NoNewRoundAtMost(mr, p) == mr <= p.Round

\* lines 426 and 497: no new round is due
NoNewRound(mr, p) == mr = p.Round

\* mutant: the genesis entry is verified like any other
GenesisBypassNever(b, p) == FALSE

\* line 438: the genesis entry of a chained beacon is not verified
GenesisBypass(b, p) == IsChained(b) /\ p.Round = 0

\* line 412
ForkCountOK(entries) == Len(entries) = 2

\* mutant: the round of the last entry is not checked
LastRoundSkipped(entries, mr) == TRUE

\* lines 442-443
LastRoundOK(entries, mr) == entries[Len(entries)].Round = mr

\* mutant: prevEntry is never advanced
NextPrevEntryStuck(entries, i, p) == p

\* line 464: prevEntry = &h.BeaconEntries[i]
NextPrevEntry(entries, i, p) == entries[i]

\* line 518: the epoch the timeout error is formatted with
TimeoutEpoch(e, ce) == e

\* lines 510-511: a goroutine parked in the select is woken by the response
WakeOnResponse(pc) == IF pc = "parked" THEN "recv" ELSE pc

\* mutant: the wait does not listen to ctx.Done()
WakeOnCancelIgnored(pc) == pc

\* mutant: the fork branch's receives listen to ctx.Done() as well
WakeOnCancelAnyWait(pc) ==
    IF pc \in {"parked", "forkwait0", "forkwait1"} THEN "ctxdone" ELSE pc

\* lines 510, 517: a goroutine parked in the select is woken by ctx.Done()
WakeOnCancel(pc) == IF pc = "parked" THEN "ctxdone" ELSE pc

\* mutant: the loop also runs for parentEpoch itself
LoopContinuesInclusive(ce, pe) == ce >= pe

\* line 507: currEpoch > parentEpoch
LoopContinues(ce, pe) == ce > pe

\* mutant: an error response is taken for an entry
RespFailedIgnored(resp) == FALSE

\* line 512: resp.Err != nil
RespFailed(resp) == resp.Err

\* mutant: prev is shared with the caller, so the genesis adjustment of
\* line 503 is visible to it
CallerPrevAliased(p, mr) == IF p.Round = 0 THEN [p EXCEPT !.Round = (mr + RoundMod - 1) % RoundMod] ELSE p

\* lines 470, 502-504: prev is passed by value; the caller's entry is not
\* touched by the genesis adjustment
CallerPrev(p, mr) == p

currBeacon == BeaconForEpoch(bSchedule, epoch)

parentBeacon == BeaconForEpoch(bSchedule, parentEpoch)

maxRound == MaxBeaconRoundForEpoch(currBeacon, nv, epoch)

NoResult == [status |-> "none", entries |-> <<>>, errEpoch |-> -1, errRound |-> -1]

\* ------------------------------------------------------------- miner actor
Addresses == {"a1", "a2"}

PeerIDs == {"p1", "p2"}

\* commR arguments: a nil slice, an empty non-nil slice, a commitment
CommRs == {"nil", "empty", "c1"}

\* deals arguments
DealLists == {<<>>, <<1>>}

SectorIDs == (0 - 1)..MaxSectors

\* lines 26-37, and the outcomes that are not actor error codes
ErrInvalidSector == 34

ErrSectorCommited == 35

ErrStoragemarketCallFailed == 36

ErrCallerUnauthorized == 37

ErrInsufficientPledge == 38

\* errors.CodeError of an error that is not one of the actor's
ErrOther == 1

\* a Go runtime panic (index out of range)
Panicked == 0 - 1

\* new(Sector)
NewSector == [CommR |-> "nil", Deals |-> <<>>]

\* lines 88-98; PublicKey and Collateral are not modelled, a nil Power is zero
NewState(owner, pledge, pid) ==
    [Owner |-> owner, PeerID |-> pid, PledgeBytes |-> pledge,
     Sectors |-> <<>>, LockedStorage |-> 0, Power |-> 0]

NoCall ==
    [method |-> "none", from |-> "a1", sectorID |-> 0, size |-> 0, pid |-> "p1",
     code |-> 0, ret |-> 0, sends |-> 0]

NoCommits == [sid \in 0..(MaxSectors - 1) |-> [n |-> 0, CommR |-> "nil", Deals |-> <<>>]]

\* -------------------------------------------------------------------- Init
Init ==
    /\ mode \in {"produce", "validate"}
    /\ bSchedule \in Schedules
    /\ nv \in NetworkVersions
    /\ epoch \in 1..MaxEpoch
    /\ parentEpoch \in 0..(epoch - 1)
    /\ prev \in { BeaconEntry(r, d) : r \in 0..MaxRoundVal, d \in DataVals }
    /\ h \in IF mode = "validate" THEN SeqsUpTo(CandidateEntries, MaxEntries) ELSE { <<>> }
    /\ cancelled = FALSE
    /\ ppc = IF mode = "produce" THEN "start" ELSE "idle"
    /\ pprev = prev
    /\ currEpoch = epoch
    /\ out = <<>>
    /\ pres = NoResult
    /\ reqs = <<>>
    /\ rch = <<>>
    /\ resps = <<>>
    /\ awaiting = FALSE
    /\ vpc = IF mode = "validate" THEN "start" ELSE "idle"
    /\ vi = 1
    /\ vprev = prev
    /\ vlog = <<>>
    /\ vres = "none"
    /\ state = NewState("a1", 0, "p1")
    /\ lastCall = NoCall
    /\ committed = NoCommits

\* --------------------------------------------------- BeaconEntriesForBlock
PReturn(status, entries, eEpoch, eRound) ==
    /\ ppc' = "done"
    /\ pres' = [status |-> status, entries |-> entries, errEpoch |-> eEpoch, errRound |-> eRound]

\* currBeacon.Entry(ctx, round): a fresh single-shot channel
IssueEntry(round) ==
    /\ reqs' = Append(reqs, [Beacon |-> currBeacon, Round |-> round])
    /\ rch' = <<>>
    /\ awaiting' = TRUE

\* lines 472-504: beacon lookup, fork test, no-op test, genesis adjustment
PStart ==
    /\ ppc = "start"
    /\ IF IsFork(bSchedule, epoch, parentEpoch)
       THEN /\ ppc' = "fork0"
            /\ out' = <<NoEntry, NoEntry>>
            /\ UNCHANGED <<pprev, currEpoch, pres, prev>>
       ELSE IF NoNewRound(maxRound, pprev)
       THEN /\ PReturn("ok", <<>>, -1, -1)
            /\ UNCHANGED <<pprev, currEpoch, out, prev>>
       ELSE /\ pprev' = IF pprev.Round = 0
                        THEN [pprev EXCEPT !.Round = Sub1(maxRound)]
                        ELSE pprev
            /\ prev' = CallerPrev(prev, maxRound)
            /\ currEpoch' = epoch
            /\ ppc' = "loop"
            /\ UNCHANGED <<out, pres>>
    /\ UNCHANGED <<reqs, rch, awaiting, cancelled, resps, h, vVars>>
    /\ UNCHANGED <<mode, bSchedule, nv, epoch, parentEpoch, minerVars>>

\* lines 476-478: first fork request, for round-1
PForkIssue0 ==
    /\ ppc = "fork0"
    /\ IssueEntry(Sub1(maxRound))
    /\ ppc' = "forkwait0"
    /\ UNCHANGED <<pprev, currEpoch, out, pres, cancelled, resps, h, inputVars, vVars, minerVars>>

\* lines 479-483: res := <-rch
PForkRecv0 ==
    /\ ppc = "forkwait0"
    /\ rch # <<>>
    /\ rch' = <<>>
    /\ IF rch[1].Err
       THEN /\ PReturn("fetch_error", <<>>, -1, Sub1(maxRound))
            /\ out' = out
       ELSE /\ out' = [out EXCEPT ![1] = rch[1].Entry]
            /\ ppc' = "fork1"
            /\ pres' = pres
    /\ UNCHANGED <<pprev, currEpoch, reqs, awaiting, cancelled, resps, h, inputVars, vVars, minerVars>>

\* line 484: second fork request, for round
PForkIssue1 ==
    /\ ppc = "fork1"
    /\ IssueEntry(maxRound)
    /\ ppc' = "forkwait1"
    /\ UNCHANGED <<pprev, currEpoch, out, pres, cancelled, resps, h, inputVars, vVars, minerVars>>

\* lines 485-490
PForkRecv1 ==
    /\ ppc = "forkwait1"
    /\ rch # <<>>
    /\ rch' = <<>>
    /\ IF rch[1].Err
       THEN /\ PReturn("fetch_error", <<>>, -1, maxRound)
            /\ out' = out
       ELSE /\ out' = [out EXCEPT ![2] = rch[1].Entry]
            /\ PReturn("ok", out', -1, -1)
    /\ UNCHANGED <<pprev, currEpoch, reqs, awaiting, cancelled, resps, h, inputVars, vVars, minerVars>>

\* lines 507-509: loop test and Entry request of one iteration
PIssue ==
    /\ ppc = "loop"
    /\ LoopContinues(currEpoch, parentEpoch)
    /\ IssueEntry(MaxBeaconRoundForEpoch(currBeacon, nv, currEpoch))
    /\ ppc' = "select"
    /\ UNCHANGED <<pprev, currEpoch, out, pres, cancelled, resps, h, inputVars, vVars, minerVars>>

\* line 510: the select statement is entered.  A ready case is chosen (any
\* of them when both are ready); with none ready the goroutine parks.
PSelect ==
    /\ ppc = "select"
    /\ \/ /\ rch # <<>>
          /\ ppc' = "recv"
       \/ /\ cancelled
          /\ ppc' = "ctxdone"
       \/ /\ rch = <<>>
          /\ ~cancelled
          /\ ppc' = "parked"
    /\ UNCHANGED <<pprev, currEpoch, out, pres, reqs, rch, awaiting, cancelled, resps, h, inputVars, vVars, minerVars>>

\* lines 511-516: case resp := <-rch
PRecv ==
    /\ ppc = "recv"
    /\ rch' = <<>>
    /\ IF RespFailed(rch[1])
       THEN /\ PReturn("fetch_error", <<>>, -1, -1)
            /\ UNCHANGED <<out, currEpoch>>
       ELSE /\ out' = Append(out, rch[1].Entry)
            /\ currEpoch' = currEpoch - 1
            /\ ppc' = "loop"
            /\ pres' = pres
    /\ UNCHANGED <<pprev, reqs, awaiting, cancelled, resps, h, inputVars, vVars, minerVars>>

\* lines 517-518: case <-ctx.Done(); the error message is formatted with epoch
PCtxDone ==
    /\ ppc = "ctxdone"
    /\ PReturn("timeout", <<>>, TimeoutEpoch(epoch, currEpoch), -1)
    /\ UNCHANGED <<pprev, currEpoch, out, reqs, rch, awaiting, cancelled, resps, h, inputVars, vVars, minerVars>>

\* lines 507, 522-524: the loop ends, reverse(out), return
PFinish ==
    /\ ppc = "loop"
    /\ ~LoopContinues(currEpoch, parentEpoch)
    /\ out' = reverse(out)
    /\ PReturn("ok", out', -1, -1)
    /\ UNCHANGED <<pprev, currEpoch, reqs, rch, awaiting, cancelled, resps, h, inputVars, vVars, minerVars>>

\* -------------------------------------------------------------- environment
\* The beacon answers the outstanding request: an entry of the requested
\* round carrying some payload, or an error.  A parked select is woken with
\* the response case.
BeaconRespond ==
    /\ awaiting
    /\ \E err \in BOOLEAN, d \in DataVals :
          /\ err => d = 0
          /\ rch' = <<Response(BeaconEntry(reqs[Len(reqs)].Round, d), err)>>
    /\ resps' = Append(resps, rch'[1])
    /\ awaiting' = FALSE
    /\ ppc' = WakeOnResponse(ppc)
    /\ UNCHANGED <<pprev, currEpoch, out, pres, reqs, cancelled, h, inputVars, vVars, minerVars>>

\* The caller's context is cancelled (or its deadline passes).  A parked
\* select is woken with the ctx.Done() case.
Cancel ==
    /\ mode = "produce"
    /\ ~cancelled
    /\ ppc # "done"
    /\ cancelled' = TRUE
    /\ ppc' = WakeOnCancel(ppc)
    /\ UNCHANGED <<pprev, currEpoch, out, pres, reqs, rch, resps, awaiting, h, inputVars, vVars, minerVars>>

\* The block-production pipeline embeds the produced entries in a block of
\* height epoch, which is then validated with the same parameters.
Submit ==
    /\ mode = "produce"
    /\ ppc = "done"
    /\ pres.status = "ok"
    /\ vpc = "idle"
    /\ h' = pres.entries
    /\ vpc' = "start"
    /\ UNCHANGED <<vi, vprev, vlog, vres, cancelled, inputVars, pVars, minerVars>>

\* ----------------------------------------------------- ValidateBlockValues
VReturn(r) ==
    /\ vpc' = "done"
    /\ vres' = r

\* mutant: the expected epoch of entry i is off by one (parentEpoch + i)
RoundsAsExpectedOffByOne(b, v, entries, pe) ==
    \A i \in 1..Len(entries) : entries[i].Round = MaxBeaconRoundForEpoch(b, v, pe + (i - 1))

\* mutant: the unchained round check is skipped
RoundsAsExpectedSkipped(b, v, entries, pe) == TRUE

\* lines 449-457: the unchained round check
RoundsAsExpected(b, v, entries, pe) ==
    \A i \in 1..Len(entries) : entries[i].Round = MaxBeaconRoundForEpoch(b, v, pe + (i - 1) + 1)

\* lines 408-457: everything before the first VerifyEntry call
VStart ==
    /\ vpc = "start"
    /\ IF IsFork(bSchedule, epoch, parentEpoch)
       THEN IF ~ForkCountOK(h)
            THEN VReturn("err_fork_count")
            ELSE /\ vpc' = "forkverify"
                 /\ vres' = vres
       ELSE IF NoNewRound(maxRound, prev)
       THEN IF Len(h) # 0
            THEN VReturn("err_unexpected_entries")
            ELSE VReturn("ok")
       ELSE IF Len(h) = 0
       THEN VReturn("err_no_entries")
       ELSE IF GenesisBypass(currBeacon, prev)
       THEN VReturn("ok")
       ELSE IF ~LastRoundOK(h, maxRound)
       THEN VReturn("err_last_round")
       ELSE IF ~IsChained(currBeacon) /\ ~RoundsAsExpected(currBeacon, nv, h, parentEpoch)
       THEN VReturn("err_round")
       ELSE /\ vpc' = "verify"
            /\ vres' = vres
    /\ vi' = 1
    /\ vprev' = prev
    /\ UNCHANGED <<vlog, cancelled, h, inputVars, pVars, minerVars>>

\* lines 415-420
VForkVerify ==
    /\ vpc = "forkverify"
    /\ LET ok == VerifyEntry(currBeacon, h[2], h[1].Data)
       IN /\ vlog' = Append(vlog, [idx |-> 2, sig |-> h[1].Data, ok |-> ok])
          /\ VReturn(IF ok THEN "ok" ELSE "err_fork_verify")
    /\ UNCHANGED <<vi, vprev, cancelled, h, inputVars, pVars, minerVars>>

\* lines 460-467: one iteration of the verify loop; the function returns nil
\* after the last one
VVerify ==
    /\ vpc = "verify"
    /\ vi <= Len(h)
    /\ LET ok == VerifyEntry(currBeacon, h[vi], vprev.Data)
       IN /\ vlog' = Append(vlog, [idx |-> vi, sig |-> vprev.Data, ok |-> ok])
          /\ IF ~ok
             THEN /\ VReturn("err_verify")
                  /\ UNCHANGED <<vi, vprev>>
             ELSE /\ vprev' = NextPrevEntry(h, vi, vprev)
                  /\ vi' = vi + 1
                  /\ IF vi = Len(h)
                     THEN VReturn("ok")
                     ELSE UNCHANGED <<vpc, vres>>
    /\ UNCHANGED <<cancelled, h, inputVars, pVars, minerVars>>

\* -------------------------------------------------------------------- Next
Next ==
    \/ PStart
    \/ PForkIssue0
    \/ PForkRecv0
    \/ PForkIssue1
    \/ PForkRecv1
    \/ PIssue
    \/ PSelect
    \/ PRecv
    \/ PCtxDone
    \/ PFinish
    \/ BeaconRespond
    \/ Cancel
    \/ Submit
    \/ VStart
    \/ VForkVerify
    \/ VVerify

Spec == Init /\ [][Next]_vars

\* The steps of the goroutine running BeaconEntriesForBlock.
ProducerStep ==
    \/ PStart
    \/ PForkIssue0
    \/ PForkRecv0
    \/ PForkIssue1
    \/ PForkRecv1
    \/ PIssue
    \/ PSelect
    \/ PRecv
    \/ PCtxDone
    \/ PFinish

InitProduce == Init /\ mode = "produce"

\* The goroutine keeps running while it has a step to take; the beacon and
\* the caller's context are under no obligation.
FairSpec == InitProduce /\ [][Next]_vars /\ WF_vars(ProducerStep)

\* ============================================================ miner actor
\* The outcome of a method's closure: the in-memory state it leaves, the exit
\* code, the value returned and the messages sent to the storage market.
Result(st, code, ret, sends) == [st |-> st, code |-> code, ret |-> ret, sends |-> sends]

\* actor.WithState: the storage is loaded into the state, the closure runs,
\* and the state is written back only when the closure returns no error.
WithState(st, res) == IF res.code = 0 THEN res.st ELSE st

\* mutant: the sender is not checked
CallerIsOwnerAlways(from, st) == TRUE

\* lines 169, 352: ctx.Message().From != state.Owner, negated
CallerIsOwner(from, st) == from = st.Owner

\* mutant: the pledge may be exceeded by one
ExceedsPledgeByTwo(total, pledge) == total > pledge + 1

\* line 176: total.GreaterThan(state.PledgeBytes)
ExceedsPledge(total, pledge) == total > pledge

\* state.Sectors[sectorID]: Go slices are indexed from 0
InRange(st, sectorID) == sectorID >= 0 /\ sectorID < Len(st.Sectors)

SectorAt(st, sectorID) == st.Sectors[sectorID + 1]

\* lines 249-263
upsertDealsToSector(st, sectorID, deals) ==
    LET s1 == IF sectorID = Len(st.Sectors)
              THEN [st EXCEPT !.Sectors = Append(@, NewSector)]
              ELSE st
    IN  IF sectorID > Len(s1.Sectors)
        THEN Result(s1, ErrInvalidSector, 0, 0)
        ELSE IF ~InRange(s1, sectorID)
        THEN Result(s1, Panicked, 0, 0)
        ELSE IF SectorAt(s1, sectorID).CommR # "nil"
        THEN Result(s1, ErrSectorCommited, 0, 0)
        ELSE Result([s1 EXCEPT !.Sectors[sectorID + 1].Deals = @ \o deals], 0, sectorID, 0)

\* The storage market's answer to a Send: a Go error, a non-zero exit code,
\* or exit code 0 with the returned value (the power of the committed deals,
\* or an ask ID whose bytes may not deserialize).
Answer(err, ret, power, bad) == [err |-> err, ret |-> ret, power |-> power, bad |-> bad]

CommitOutcomes ==
    {Answer(TRUE, 0, 0, FALSE), Answer(FALSE, 1, 0, FALSE)}
        \cup { Answer(FALSE, 0, p, FALSE) : p \in 1..MaxPower }

AskOutcomes ==
    {Answer(TRUE, 0, 0, FALSE), Answer(FALSE, 1, 0, FALSE),
     Answer(FALSE, 0, 0, TRUE), Answer(FALSE, 0, 0, FALSE)}

AskID == 7

\* the closure of CommitSector, lines 272-300
commitSector(st, sectorID, commR, deals, sm) ==
    LET up == IF Len(deals) # 0
              THEN upsertDealsToSector(st, sectorID, deals)
              ELSE Result(st, 0, sectorID, 0)
    IN  IF up.code # 0
        THEN up
        ELSE IF ~InRange(up.st, up.ret)
        THEN Result(up.st, Panicked, 0, 0)
        ELSE IF SectorAt(up.st, up.ret).CommR # "nil"
        THEN Result(up.st, ErrSectorCommited, 0, 0)
        ELSE IF sm.err
        THEN Result(up.st, ErrOther, 0, 1)
        ELSE IF sm.ret # 0
        THEN Result(up.st, ErrStoragemarketCallFailed, 0, 1)
        ELSE Result([up.st EXCEPT !.Sectors[up.ret + 1].CommR = commR,
                                  !.Power = @ + sm.power], 0, sectorID, 1)

\* the closure of AddAsk, lines 168-196
addAsk(st, from, size, sm) ==
    IF ~CallerIsOwner(from, st)
    THEN Result(st, ErrCallerUnauthorized, 0, 0)
    ELSE LET total == st.LockedStorage + size
             s1 == [st EXCEPT !.LockedStorage = total]
         IN  IF ExceedsPledge(total, st.PledgeBytes)
             THEN Result(st, ErrInsufficientPledge, 0, 0)
             ELSE IF sm.err
             THEN Result(s1, ErrOther, 0, 1)
             ELSE IF sm.bad
             THEN Result(s1, ErrOther, 0, 1)
             ELSE IF sm.ret # 0
             THEN Result(s1, ErrStoragemarketCallFailed, 0, 1)
             ELSE Result(s1, 0, AskID, 1)

\* the closure of UpdatePeerID, lines 350-358
updatePeerID(st, from, pid) ==
    IF ~CallerIsOwner(from, st)
    THEN Result(st, ErrCallerUnauthorized, 0, 0)
    ELSE Result([st EXCEPT !.PeerID = pid], 0, 0, 0)

Call(method, from, sectorID, size, pid, res) ==
    [method |-> method, from |-> from, sectorID |-> sectorID, size |-> size,
     pid |-> pid, code |-> res.code, ret |-> res.ret, sends |-> res.sends]

\* The model stops growing the state at its bounds.
WithinBounds(st) ==
    /\ Len(st.Sectors) <= MaxSectors
    /\ \A k \in 1..Len(st.Sectors) : Len(st.Sectors[k].Deals) <= MaxDeals
    /\ st.Power <= MaxPower

\* lines 165-209
AddAsk ==
    \E from \in Addresses, size \in 0..MaxAsk, sm \in AskOutcomes :
        LET res == addAsk(state, from, size, sm)
        IN  /\ state' = WithState(state, res)
            /\ lastCall' = Call("addAsk", from, 0, size, "p1", res)
            /\ UNCHANGED <<committed, beaconVars>>

\* lines 231-247
AddDealsToSector ==
    \E sectorID \in SectorIDs, deals \in DealLists :
        LET res == upsertDealsToSector(state, sectorID, deals)
        IN  /\ WithinBounds(res.st)
            /\ state' = WithState(state, res)
            /\ lastCall' = Call("addDealsToSector", "a1", sectorID, 0, "p1", res)
            /\ UNCHANGED <<committed, beaconVars>>

\* lines 269-311
CommitSector ==
    \E sectorID \in SectorIDs, commR \in CommRs, deals \in DealLists,
       sm \in CommitOutcomes :
        LET res == commitSector(state, sectorID, commR, deals, sm)
        IN  /\ WithinBounds(res.st)
            /\ state' = WithState(state, res)
            /\ lastCall' = Call("commitSector", "a1", sectorID, 0, "p1", res)
            /\ committed' =
                   IF res.code = 0
                   THEN [committed EXCEPT ![sectorID] =
                            [n |-> @.n + 1,
                             CommR |-> IF @.n = 0 THEN SectorAt(res.st, sectorID).CommR ELSE @.CommR,
                             Deals |-> IF @.n = 0 THEN SectorAt(res.st, sectorID).Deals ELSE @.Deals]]
                   ELSE committed
            /\ UNCHANGED beaconVars

\* lines 332-345: reads the persisted state
GetPeerID ==
    /\ lastCall' = [NoCall EXCEPT !.method = "getPeerID", !.pid = state.PeerID]
    /\ UNCHANGED <<state, committed, beaconVars>>

\* lines 348-365
UpdatePeerID ==
    \E from \in Addresses, pid \in PeerIDs :
        LET res == updatePeerID(state, from, pid)
        IN  /\ state' = WithState(state, res)
            /\ lastCall' = Call("updatePeerID", from, 0, 0, pid, res)
            /\ UNCHANGED <<committed, beaconVars>>

\* The actor after InitializeState, with no beacon call in progress.
MinerInit ==
    /\ \E owner \in Addresses, pledge \in 0..MaxPledge, pid \in PeerIDs :
           state = NewState(owner, pledge, pid)
    /\ lastCall = NoCall
    /\ committed = NoCommits
    /\ mode = "miner"
    /\ bSchedule = <<BeaconPoint(0, 1)>>
    /\ nv = 1
    /\ epoch = 1
    /\ parentEpoch = 0
    /\ prev = NoEntry
    /\ h = <<>>
    /\ cancelled = FALSE
    /\ ppc = "idle"
    /\ pprev = NoEntry
    /\ currEpoch = 1
    /\ out = <<>>
    /\ pres = NoResult
    /\ reqs = <<>>
    /\ rch = <<>>
    /\ resps = <<>>
    /\ awaiting = FALSE
    /\ vpc = "idle"
    /\ vi = 1
    /\ vprev = NoEntry
    /\ vlog = <<>>
    /\ vres = "none"

\* The sector methods read neither the sender nor the owner, pledge or peer
\* ID; the ask and peer-ID methods read no sector.
SectorNext ==
    \/ AddDealsToSector
    \/ CommitSector

SectorInit == MinerInit /\ state = NewState("a1", 0, "p1")

SectorSpec == SectorInit /\ [][SectorNext]_vars

OwnerNext ==
    \/ AddAsk
    \/ GetPeerID
    \/ UpdatePeerID

OwnerSpec == MinerInit /\ [][OwnerNext]_vars

\* ================================================================== claims
\* The signature entry i of the header is verified against.
PrevSigOf(i) == IF i = 1 THEN prev.Data ELSE h[i - 1].Data

\* parentBeacon != currBeacon && currBeacon.IsChained(), written out
AtFork == parentBeacon # currBeacon /\ IsChained(currBeacon)

\* C1: validator/producer duality.  For an unchained current beacon, when
\* BeaconEntriesForBlock succeeded and every returned entry passes
\* VerifyEntry, ValidateBlockValues accepts a block of height epoch carrying
\* exactly the returned list (same schedule, nv, parentEpoch and prev).
C1_Duality ==
    ( /\ mode = "produce"
      /\ vpc = "done"
      /\ ~IsChained(currBeacon)
      /\ \A i \in 1..Len(h) : VerifyEntry(currBeacon, h[i], PrevSigOf(i)) )
    => vres = "ok"

C1_Witness ==
    /\ mode = "produce"
    /\ vpc = "done"
    /\ ~IsChained(currBeacon)
    /\ h = pres.entries
    /\ Len(h) = 3
    /\ h[1].Round < h[3].Round
    /\ vres = "ok"

\* C2 as stated: for every schedule, when MaxBeaconRoundForEpoch(nv, epoch)
\* equals prev.round the producer returns an empty list without any Entry
\* request and the validator rejects every non-empty entry list.
C2_NoOpAnySchedule ==
    maxRound = prev.Round =>
        /\ reqs = <<>>
        /\ ppc = "done" => (pres.status = "ok" /\ pres.entries = <<>>)
        /\ (vpc = "done" /\ Len(h) > 0) => vres # "ok"

\* C2 amended: the same, when the epoch is not a fork to a chained beacon.
C2_NoOpNonFork ==
    (maxRound = prev.Round /\ ~AtFork) =>
        /\ reqs = <<>>
        /\ ppc \in {"start", "idle", "done"}
        /\ ppc = "done" => (pres.status = "ok" /\ pres.entries = <<>>)
        /\ (vpc = "done" /\ Len(h) > 0) => vres = "err_unexpected_entries"
        /\ (vpc = "done" /\ Len(h) = 0) => vres = "ok"

C2_Witness ==
    /\ mode = "validate"
    /\ maxRound = prev.Round
    /\ ~AtFork
    /\ vpc = "done"
    /\ Len(h) > 0
    /\ VerifyEntry(currBeacon, h[1], prev.Data)
    /\ vres = "err_unexpected_entries"

\* C3 as stated: for a chained current beacon and prevEntry.round == 0 the
\* validator accepts whatever the block's entries are, verifying nothing.
C3_BypassAlways ==
    (IsChained(currBeacon) /\ prev.Round = 0 /\ vpc = "done") =>
        (vres = "ok" /\ vlog = <<>>)

\* C3 amended: for a chained current beacon that is also the parent's beacon,
\* prevEntry.round == 0 and MaxBeaconRoundForEpoch(nv, height) != 0, the
\* validator accepts every non-empty entry list, verifying nothing.
C3_BypassNonFork ==
    ( /\ IsChained(currBeacon)
      /\ parentBeacon = currBeacon
      /\ prev.Round = 0
      /\ maxRound # 0
      /\ Len(h) > 0
      /\ vpc = "done" )
    => (vres = "ok" /\ vlog = <<>>)

C3_Witness ==
    /\ mode = "validate"
    /\ IsChained(currBeacon)
    /\ parentBeacon = currBeacon
    /\ prev.Round = 0
    /\ maxRound # 0
    /\ Len(h) = 2
    /\ h[2].Round # maxRound
    /\ ~VerifyEntry(currBeacon, h[1], prev.Data)
    /\ vpc = "done"
    /\ vres = "ok"

\* C4: at a fork to a chained beacon the validator accepts exactly the
\* blocks with 2 entries whose second entry verifies against the data of the
\* first (nothing else is checked), and every successful producer result has
\* exactly 2 entries.
C4_ForkTwoEntries ==
    AtFork =>
        /\ vpc = "done" =>
              (vres = "ok" <=> (Len(h) = 2 /\ VerifyEntry(currBeacon, h[2], h[1].Data)))
        /\ \A k \in 1..Len(vlog) : vlog[k].idx = 2 /\ vlog[k].sig = h[1].Data /\ k = 1
        /\ (ppc = "done" /\ pres.status = "ok") => Len(pres.entries) = 2

C4_Witness ==
    /\ mode = "validate"
    /\ AtFork
    /\ vpc = "done"
    /\ vres = "ok"
    /\ Len(h) = 2
    /\ h[1].Data # Sig(currBeacon, h[1].Round)
    /\ h[2].Round # maxRound
    /\ prev.Round # 0

\* MaxBeaconRoundForEpoch of beacon b is strictly increasing in the epoch.
StrictRounds(b, v) ==
    \A e \in 0..(MaxEpoch + MaxEntries) :
        MaxBeaconRoundForEpoch(b, v, e) < MaxBeaconRoundForEpoch(b, v, e + 1)

NonForkSuccess == mode = "produce" /\ ~AtFork /\ ppc = "done" /\ pres.status = "ok"

\* C5 as stated: on the non-fork path the sequence returned by a successful
\* BeaconEntriesForBlock is strictly increasing in round number.
C5_StrictlyIncreasing ==
    NonForkSuccess =>
        \A i \in 1..(Len(pres.entries) - 1) :
            pres.entries[i].Round < pres.entries[i + 1].Round

\* C5 amended: the returned sequence is non-decreasing in round number, and
\* strictly increasing when MaxBeaconRoundForEpoch is strictly increasing.
C5_NonDecreasing ==
    NonForkSuccess =>
        \A i \in 1..(Len(pres.entries) - 1) :
            /\ pres.entries[i].Round <= pres.entries[i + 1].Round
            /\ StrictRounds(currBeacon, nv) =>
                  pres.entries[i].Round < pres.entries[i + 1].Round

C5_Witness ==
    /\ NonForkSuccess
    /\ Len(pres.entries) = 3
    /\ pres.entries[1].Round < pres.entries[2].Round
    /\ pres.entries[2].Round = pres.entries[3].Round

AcceptedUnchained ==
    ~IsChained(currBeacon) /\ vpc = "done" /\ vres = "ok" /\ Len(h) > 0

\* C6 as stated: a block accepted for an unchained beacon with a non-empty
\* entry list carries exactly blockEpoch - parentEpoch entries, entry i having
\* round MaxBeaconRoundForEpoch(nv, parentEpoch + i + 1).
C6_ExactCount ==
    AcceptedUnchained =>
        /\ Len(h) = epoch - parentEpoch
        /\ \A i \in 1..Len(h) :
              h[i].Round = MaxBeaconRoundForEpoch(currBeacon, nv, parentEpoch + i)

\* C6 amended: entry i of such a block has round
\* MaxBeaconRoundForEpoch(nv, parentEpoch + i + 1) and the last entry has
\* round MaxBeaconRoundForEpoch(nv, blockEpoch); the block carries exactly
\* blockEpoch - parentEpoch entries when MaxBeaconRoundForEpoch is strictly
\* increasing in the epoch.
C6_Contiguity ==
    AcceptedUnchained =>
        /\ \A i \in 1..Len(h) :
              h[i].Round = MaxBeaconRoundForEpoch(currBeacon, nv, parentEpoch + i)
        /\ h[Len(h)].Round = MaxBeaconRoundForEpoch(currBeacon, nv, epoch)
        /\ StrictRounds(currBeacon, nv) => Len(h) = epoch - parentEpoch

C6_Witness ==
    /\ mode = "validate"
    /\ AcceptedUnchained
    /\ StrictRounds(currBeacon, nv)
    /\ Len(h) = 2
    /\ epoch - parentEpoch = 2

\* C7: on the non-fork path VerifyEntry is called on the entries in index
\* order, entry 1 against prevEntry.Data and entry i against the data of
\* entry i-1; an entry is verified only after all earlier ones succeeded, a
\* failure rejects the block at once, and a block that reaches the verify
\* loop is accepted only if every entry verified.
C7_SequentialVerify ==
    ~AtFork =>
        /\ \A k \in 1..Len(vlog) :
              /\ vlog[k].idx = k
              /\ vlog[k].sig = PrevSigOf(k)
              /\ vlog[k].ok = VerifyEntry(currBeacon, h[k], PrevSigOf(k))
              /\ k < Len(vlog) => vlog[k].ok
        /\ (Len(vlog) > 0 /\ ~vlog[Len(vlog)].ok) => (vpc = "done" /\ vres = "err_verify")
        /\ vres = "err_verify" => (Len(vlog) > 0 /\ ~vlog[Len(vlog)].ok)
        /\ ( /\ vpc = "done"
             /\ vres = "ok"
             /\ Len(h) > 0
             /\ ~(IsChained(currBeacon) /\ prev.Round = 0) )
           => (Len(vlog) = Len(h) /\ \A k \in 1..Len(vlog) : vlog[k].ok)

C7_Witness ==
    /\ mode = "validate"
    /\ ~AtFork
    /\ IsChained(currBeacon)
    /\ vpc = "done"
    /\ vres = "ok"
    /\ Len(vlog) = 2
    /\ h[1].Data # prev.Data

\* C8: when ctx is cancelled while the fetch loop is parked waiting for a
\* response, the select takes the ctx.Done() case: the call returns a timeout
\* error with no entries and issues no further Entry request; on the
\* non-fork path a cancelled call always returns, whether or not the beacon
\* ever answers.
C8_CancelHonoured ==
    /\ [][(ppc = "parked" /\ ~cancelled /\ cancelled') =>
            (ppc' = "ctxdone" /\ reqs' = reqs)]_vars
    /\ [][ppc = "ctxdone" =>
            /\ reqs' = reqs
            /\ ppc' \in {"ctxdone", "done"}
            /\ ppc' = "done" => (pres'.status = "timeout" /\ pres'.entries = <<>>)]_vars
    /\ [][ppc = "done" => (reqs' = reqs /\ ppc' = "done" /\ pres' = pres)]_vars
    /\ [](ppc = "parked" => ~cancelled)
    /\ (ppc = "ctxdone") ~> (ppc = "done" /\ pres.status = "timeout")
    /\ (cancelled /\ ~AtFork) ~> (ppc = "done")

C8_Witness ==
    /\ ppc = "done"
    /\ pres.status = "timeout"
    /\ pres.entries = <<>>
    /\ Len(out) = 1
    /\ Len(reqs) = 2
    /\ Len(resps) = 1
    /\ awaiting

\* C9: the timeout error of the fetch loop carries the epoch whose entry
\* was being awaited (the loop epoch) when the loop aborted.
C9_ErrorNamesAwaitedEpoch ==
    pres.status = "timeout" => pres.errEpoch = currEpoch

\* C10: at a fork to a chained beacon the producer requests round-1 and then
\* round from the new beacon, the second only after the first answer arrived
\* without error; it returns exactly the two answered entries in that order,
\* and an error without entries when either answer is an error.
C10_ForkProduction ==
    (mode = "produce" /\ AtFork) =>
        LET round == MaxBeaconRoundForEpoch(currBeacon, nv, epoch)
            before == (round + RoundMod - 1) % RoundMod
        IN /\ Len(reqs) <= 2
           /\ Len(reqs) >= 1 => reqs[1] = [Beacon |-> currBeacon, Round |-> before]
           /\ Len(reqs) = 2 =>
                 /\ reqs[2] = [Beacon |-> currBeacon, Round |-> round]
                 /\ Len(resps) >= 1
                 /\ ~resps[1].Err
                 /\ out[1] = resps[1].Entry
           /\ (ppc = "done" /\ pres.status = "ok") =>
                 /\ Len(resps) = 2
                 /\ pres.entries = <<resps[1].Entry, resps[2].Entry>>
                 /\ pres.entries[1].Round = before
                 /\ pres.entries[2].Round = round
           /\ (ppc = "done" /\ \E k \in 1..Len(resps) : resps[k].Err) =>
                 (pres.status = "fetch_error" /\ pres.entries = <<>>)
           /\ (ppc = "done" /\ pres.status # "ok") =>
                 (Len(resps) > 0 /\ resps[Len(resps)].Err)

C10_Witness ==
    /\ mode = "produce"
    /\ AtFork
    /\ ppc = "done"
    /\ pres.status = "ok"
    /\ Len(pres.entries) = 2
    /\ pres.entries[2].Round = maxRound
    /\ pres.entries[1].Round + 1 = pres.entries[2].Round
    /\ cancelled

\* C11: no step of BeaconEntriesForBlock or ValidateBlockValues changes the
\* Schedule, the header's entry list or the caller's prev / prevEntry value
\* (nor any other argument), whether the call succeeds or fails.
C11_NoSharedMutation ==
    [][(ppc \notin {"idle", "done"} \/ vpc \notin {"idle", "done"}) =>
          /\ bSchedule' = bSchedule
          /\ h' = h
          /\ prev' = prev
          /\ <<nv, epoch, parentEpoch>>' = <<nv, epoch, parentEpoch>>]_vars

C11_Witness ==
    /\ mode = "produce"
    /\ ppc = "done"
    /\ pres.status = "ok"
    /\ Len(pres.entries) >= 2
    /\ pprev.Round # prev.Round
    /\ vpc = "done"
    /\ vprev # prev

\* C13: on the non-fork path an empty entry list is accepted exactly when
\* MaxBeaconRoundForEpoch(nv, height) equals prevEntry.round, and a non-empty
\* list is rejected whenever they are equal.
C13_EmptyIffNoNewRound ==
    (~AtFork /\ vpc = "done") =>
        /\ Len(h) = 0 => (vres = "ok" <=> maxRound = prev.Round)
        /\ (Len(h) = 0 /\ maxRound # prev.Round) => vres = "err_no_entries"
        /\ (Len(h) > 0 /\ maxRound = prev.Round) => vres = "err_unexpected_entries"
        /\ vres = "ok" => (Len(h) = 0 <=> maxRound = prev.Round)

C13_Witness ==
    /\ mode = "validate"
    /\ ~AtFork
    /\ vpc = "done"
    /\ Len(h) = 0
    /\ maxRound < prev.Round
    /\ vres = "err_no_entries"

\* C14: on the non-fork path outside the genesis bypass, a block accepted
\* with a non-empty entry list ends with an entry of round
\* MaxBeaconRoundForEpoch(nv, height), and no VerifyEntry call is made for a
\* block that fails this check.
C14_LastRound ==
    (~AtFork /\ ~(IsChained(currBeacon) /\ prev.Round = 0)) =>
        /\ (vpc = "done" /\ vres = "ok" /\ Len(h) > 0) => h[Len(h)].Round = maxRound
        /\ Len(vlog) > 0 => h[Len(h)].Round = maxRound
        /\ vres = "err_last_round" => (vlog = <<>> /\ h[Len(h)].Round # maxRound)
        /\ (vpc = "done" /\ Len(h) > 0 /\ maxRound # prev.Round /\ h[Len(h)].Round # maxRound)
              => vres = "err_last_round"

C14_Witness ==
    /\ mode = "validate"
    /\ ~AtFork
    /\ ~IsChained(currBeacon)
    /\ vpc = "done"
    /\ vres = "err_last_round"
    /\ Len(h) = 2
    /\ h[1].Round = MaxBeaconRoundForEpoch(currBeacon, nv, parentEpoch + 1)
    /\ h[2].Round = MaxBeaconRoundForEpoch(currBeacon, nv, parentEpoch + 2)
    /\ VerifyEntry(currBeacon, h[1], prev.Data)

\* The round requested for the k-th iteration of the fetch loop.
LoopRound(k) == MaxBeaconRoundForEpoch(currBeacon, nv, epoch - (k - 1))

C16_FetchFailure ==
    (mode = "produce" /\ ~AtFork) =>
        /\ \A k \in 1..(Len(reqs) - 1) : k <= Len(resps) /\ ~resps[k].Err
        /\ \A k \in 1..Len(out) : ~resps[k].Err
        /\ (ppc = "recv" /\ rch[1].Err) => Len(resps) = Len(reqs)
        /\ pres.status = "fetch_error" =>
              /\ ppc = "done"
              /\ pres.entries = <<>>
              /\ Len(resps) = Len(reqs)
              /\ resps[Len(resps)].Err
        /\ (ppc = "done" /\ Len(resps) > 0 /\ resps[Len(resps)].Err /\ pres.status # "timeout")
              => pres.status = "fetch_error"
        /\ ppc \in {"loop", "parked"} => \A k \in 1..Len(resps) : ~resps[k].Err

C16_Witness ==
    /\ mode = "produce"
    /\ ~AtFork
    /\ ppc = "done"
    /\ pres.status = "fetch_error"
    /\ pres.entries = <<>>
    /\ Len(out) = 1
    /\ Len(reqs) = 2
    /\ epoch - parentEpoch = 3

\* C17: in the fork branch the call waits for the pending answer whatever
\* the state of ctx: while no answer has arrived it does not move, cancelled
\* or not, and it never returns a timeout; on the non-fork path a cancelled
\* call always returns.
C17_ForkNotCancellable ==
    /\ [][(ppc \in {"forkwait0", "forkwait1"} /\ rch = <<>> /\ rch' = <<>>) =>
            (ppc' = ppc /\ pres' = pres)]_vars
    /\ [](AtFork => pres.status # "timeout")
    /\ []((AtFork /\ ppc = "done") => Len(resps) = Len(reqs))
    /\ (cancelled /\ ~AtFork) ~> (ppc = "done")

C17_Witness ==
    /\ AtFork
    /\ cancelled
    /\ ppc = "forkwait1"
    /\ rch = <<>>
    /\ awaiting

\* C12: AddDealsToSector called with sectorID -1 allocates a new sector,
\* adds the deals to it and returns its ID with exit code 0.
C12_MinusOneAllocates ==
    (lastCall.method = "addDealsToSector" /\ lastCall.sectorID = 0 - 1) =>
        /\ lastCall.code = 0
        /\ lastCall.ret = Len(state.Sectors) - 1
        /\ lastCall.ret >= 0

\* C18: once CommitSector has succeeded for a sector, the sector keeps the
\* CommR and Deals it had at commit time, the commit (and its Power increase)
\* has happened exactly once, and a later AddDealsToSector or CommitSector
\* naming the sector has failed with ErrSectorCommited, whatever the commR.
C18_CommitFinal ==
    \A sid \in DOMAIN committed :
        committed[sid].n >= 1 =>
            /\ committed[sid].n = 1
            /\ InRange(state, sid)
            /\ SectorAt(state, sid).CommR = committed[sid].CommR
            /\ SectorAt(state, sid).Deals = committed[sid].Deals
            /\ (lastCall.method = "addDealsToSector" /\ lastCall.sectorID = sid) =>
                   lastCall.code = ErrSectorCommited
            /\ (lastCall.method = "commitSector" /\ lastCall.sectorID = sid) =>
                   lastCall.code \in {0, ErrSectorCommited}

\* The same for sectors committed with a commR that is not nil.
C18_CommitFinalNonNil ==
    \A sid \in DOMAIN committed :
        (committed[sid].n >= 1 /\ committed[sid].CommR # "nil") =>
            /\ committed[sid].n = 1
            /\ InRange(state, sid)
            /\ SectorAt(state, sid).CommR = committed[sid].CommR
            /\ SectorAt(state, sid).Deals = committed[sid].Deals
            /\ (lastCall.method = "addDealsToSector" /\ lastCall.sectorID = sid) =>
                   lastCall.code = ErrSectorCommited
            /\ (lastCall.method = "commitSector" /\ lastCall.sectorID = sid) =>
                   lastCall.code \in {0, ErrSectorCommited}

\* C19: the persisted LockedStorage never exceeds PledgeBytes; an AddAsk
\* that would make it exceed fails with ErrInsufficientPledge, whoever sends
\* it; a failing AddAsk leaves LockedStorage unchanged.
C19_PledgeBound ==
    /\ [](state.LockedStorage <= state.PledgeBytes)
    /\ [][(/\ lastCall'.method = "addAsk"
           /\ state.LockedStorage + lastCall'.size > state.PledgeBytes) =>
              lastCall'.code = ErrInsufficientPledge]_vars
    /\ [][(lastCall'.method = "addAsk" /\ lastCall'.code # 0) =>
              state'.LockedStorage = state.LockedStorage]_vars

\* C19, amended: the persisted LockedStorage never exceeds PledgeBytes; an
\* AddAsk sent by the Owner that would make it exceed fails with
\* ErrInsufficientPledge (sent by anyone else it fails with
\* ErrCallerUnauthorized); a failing AddAsk leaves LockedStorage unchanged
\* and a successful one adds its size.
C19_PledgeBoundOwner ==
    /\ [](state.LockedStorage <= state.PledgeBytes)
    /\ [][(/\ lastCall'.method = "addAsk"
           /\ state.LockedStorage + lastCall'.size > state.PledgeBytes) =>
              lastCall'.code = IF lastCall'.from = state.Owner
                               THEN ErrInsufficientPledge
                               ELSE ErrCallerUnauthorized]_vars
    /\ [][(lastCall'.method = "addAsk" /\ lastCall'.code # 0) =>
              state'.LockedStorage = state.LockedStorage]_vars
    /\ [][(lastCall'.method = "addAsk" /\ lastCall'.code = 0) =>
              state'.LockedStorage = state.LockedStorage + lastCall'.size]_vars

\* The Owner's ask was refused for want of pledge after an earlier ask took some.
C19_Witness ==
    /\ lastCall.method = "addAsk"
    /\ lastCall.from = state.Owner
    /\ lastCall.code = ErrInsufficientPledge
    /\ state.LockedStorage > 0
    /\ state.LockedStorage + lastCall.size > state.PledgeBytes

\* C20: an UpdatePeerID or AddAsk from a sender other than the Owner fails
\* with ErrCallerUnauthorized, sends nothing and leaves the state unchanged;
\* the Owner never changes; PeerID changes only by a successful UpdatePeerID
\* from the Owner, to the value GetPeerID then returns.
C20_OwnerOnly ==
    /\ [][(/\ lastCall'.method \in {"updatePeerID", "addAsk"}
           /\ lastCall'.from # state.Owner) =>
              /\ lastCall'.code = ErrCallerUnauthorized
              /\ lastCall'.sends = 0
              /\ state' = state]_vars
    /\ [][state'.Owner = state.Owner]_vars
    /\ [][state'.PeerID # state.PeerID =>
              /\ lastCall'.method = "updatePeerID"
              /\ lastCall'.from = state.Owner
              /\ lastCall'.code = 0
              /\ state'.PeerID = lastCall'.pid]_vars
    /\ [][(lastCall'.method = "updatePeerID" /\ lastCall'.from = state.Owner) =>
              (lastCall'.code = 0 /\ state'.PeerID = lastCall'.pid)]_vars
    /\ [][lastCall'.method = "getPeerID" =>
              (lastCall'.code = 0 /\ lastCall'.pid = state'.PeerID /\ state' = state)]_vars

\* A stranger's UpdatePeerID naming another peer ID was refused.
C20_Witness ==
    /\ lastCall.method = "updatePeerID"
    /\ lastCall.from # state.Owner
    /\ lastCall.code = ErrCallerUnauthorized
    /\ lastCall.sends = 0
    /\ lastCall.pid # state.PeerID

====
